---- MODULE Spec2Model ----
(***************************************************************************)
(* nmea-monitor (src/main.rs): a spawned ingestion task reads lines,       *)
(* decodes them and writes GGA fields into an Arc<RwLock<NmeaStatus>>,     *)
(* while the render loop `run` races a 60 Hz interval against the          *)
(* terminal's event stream, reads the store under the read lock and draws  *)
(* each field through the staleness-aware StatusValue::get.                *)
(*                                                                         *)
(* Time is a discrete clock `now`; Option<T> is a sequence of length at    *)
(* most one (<<>> is None, <<v>> is Some(v)); every field value is kept as *)
(* the string its to_string() yields.                                      *)
(***************************************************************************)
EXTENDS Integers, Sequences, FiniteSets, TLC

\* ---------------------------------------------------------------- bounds
MaxTime == 2        \* the clock runs over 0..MaxTime
Timeout == 1        \* the configured staleness timeout (args.timeout), in clock units
MaxLines == 2       \* lines the line source delivers before it is left alone

\* ------------------------------------------------------------ Option<T>
None == <<>>
Some(v) == <<v>>
IsSome(o) == Len(o) = 1
Unwrap(o) == o[1]

\* --------------------------------------------------------------- fields
\* struct NmeaStatus: the seven slots, in declaration order.
Fields == {"lat", "lon", "alt", "hdg", "sog", "cog", "fix_type"}

\* draw(): the order in which the slots are cloned and rendered.
DrawOrder == <<"lat", "lon", "alt", "hdg", "sog", "cog", "fix_type">>

\* The GGA arm: the slots it updates, in the order of its update calls.
GgaFieldsWithHdg == <<"lat", "lon", "alt", "hdg">>
GgaFieldsWithSog == <<"lat", "lon", "alt", "fix_type", "sog">>
GgaFields == <<"lat", "lon", "alt", "fix_type">>

\* The match on nmea::sentences::FixType inside the GGA arm.
FixLabel(t) ==
    CASE t = "FixType::Invalid" -> "Invalid"
      [] t = "FixType::Gps" -> "Gps"
      [] t = "FixType::DGps" -> "DGps"
      [] t = "FixType::Pps" -> "Pps"
      [] t = "FixType::Rtk" -> "Rtk"
      [] t = "FixType::FloatRtk" -> "FloatRtk"
      [] t = "FixType::Estimated" -> "Estimated"
      [] t = "FixType::Manual" -> "Manual"
      [] t = "FixType::Simulation" -> "Simulation"

\* ---------------------------------------------------------------- lines
\* The lines the line source may deliver. nmea::parse_str is an external
\* decoder; it is modelled by its result on each representative line.
Lines == {"gga_full", "gga_noalt", "rmc", "garbage"}

\* nmea::parse_str(line.trim_end()): Err, or Ok(ParseResult::<kind>(..)).
parse_str(line) ==
    CASE line = "gga_full" ->
           [ok |-> TRUE, kind |-> "GGA", latitude |-> Some("12.5"),
            longitude |-> Some("100.25"), altitude |-> Some("30.5"),
            fix_type |-> Some("FixType::Gps")]
      [] line = "gga_noalt" ->
           [ok |-> TRUE, kind |-> "GGA", latitude |-> Some("48.1"),
            longitude |-> Some("11.6"), altitude |-> None,
            fix_type |-> Some("FixType::DGps")]
      [] line = "rmc" ->
           [ok |-> TRUE, kind |-> "RMC", latitude |-> Some("48.1"),
            longitude |-> Some("11.6"), altitude |-> None,
            fix_type |-> None]
      [] line = "garbage" ->
           [ok |-> FALSE, kind |-> "Err", latitude |-> None,
            longitude |-> None, altitude |-> None, fix_type |-> None]

\* `if let Ok(parsed) = .. { match parsed { ParseResult::GGA(gga) => .. } }`:
\* only a successfully decoded GGA sentence reaches the store.
IsGga(p) == p.ok /\ p.kind = "GGA"

\* The argument each update call of the GGA arm passes for its slot.
GgaValue(gga, f) ==
    CASE f = "lat" -> gga.latitude
      [] f = "lon" -> gga.longitude
      [] f = "alt" -> gga.altitude
      [] f = "fix_type" -> IF IsSome(gga.fix_type)
                             THEN Some(FixLabel(Unwrap(gga.fix_type)))
                             ELSE None
      [] OTHER -> None

\* ---------------------------------------------------------- StatusValue
\* impl Default for StatusValue: inner None, updated_at Instant::now().
StatusValue_default_late(t) == [inner |-> None, updated_at |-> t + 1]
StatusValue_default_present(t) == [inner |-> Some("0"), updated_at |-> t]
StatusValue_default(t) == [inner |-> None, updated_at |-> t]

\* NmeaStatus::new(timeout): every slot StatusValue::new(timeout).
NmeaStatus_new(t) == [f \in Fields |-> StatusValue_default(t)]

\* StatusValue::update, first statement: self.inner = next.into().
StatusValue_update_inner_keep(sv, next) ==
    IF IsSome(next) THEN [sv EXCEPT !.inner = next] ELSE sv
StatusValue_update_inner_first(sv, next) ==
    IF IsSome(sv.inner) THEN sv ELSE [sv EXCEPT !.inner = next]
StatusValue_update_inner(sv, next) == [sv EXCEPT !.inner = next]

\* StatusValue::update, second statement: self.updated_at = Instant::now().
StatusValue_update_stamp_never(sv, t) == sv
StatusValue_update_stamp_if_present(sv, t) ==
    IF IsSome(sv.inner) THEN [sv EXCEPT !.updated_at = t] ELSE sv
StatusValue_update_stamp(sv, t) == [sv EXCEPT !.updated_at = t]

\* Instant::elapsed(): saturating now - updated_at.
Elapsed(sv, t) == IF t >= sv.updated_at THEN t - sv.updated_at ELSE 0

\* StatusValue::get: inner, filtered by updated_at.elapsed() < timeout.
StatusValue_get_inclusive(sv, t, to) ==
    IF IsSome(sv.inner) /\ Elapsed(sv, t) <= to THEN sv.inner ELSE None
StatusValue_get(sv, t, to) ==
    IF IsSome(sv.inner) /\ Elapsed(sv, t) < to THEN sv.inner ELSE None

\* impl From<StatusValue<T>> for Text: the value's to_string(), or "value".
Text_from_inner(sv, t, to) ==
    IF IsSome(sv.inner) THEN Unwrap(sv.inner) ELSE "value"
Text_from(sv, t, to) ==
    LET g == StatusValue_get(sv, t, to)
    IN IF IsSome(g) THEN Unwrap(g) ELSE "value"

\* ----------------------------------------------------------------- lock
\* tokio::sync::RwLock: read access is granted while no write guard is out,
\* write access while neither a read nor a write guard is out.
CanReadAlways(w) == TRUE
CanRead(w) == ~w
CanWriteIgnoringReader(r, w) == ~w
CanWrite(r, w) == ~r /\ ~w

\* The lock's waiters are served first-in first-out: a guard that is dropped
\* while the other task waits hands the access to that task at once, so the
\* task that released cannot take the lock again ahead of it.
NoGrantOnRelease(waiting) == FALSE
GrantOnRelease(waiting) == waiting

\* ------------------------------------------------------------ render loop
\* matches!(event, Event::Key(KeyEvent { code: KeyCode::Esc, .. }))
IsQuitAnyKey(e) == e \in {"Esc", "Other"}
IsQuitWrongKey(e) == e = "Other"
IsQuit(e) == e = "Esc"

\* What the event stream can yield: Some(Ok(Esc key)), Some(Ok(other event)),
\* or an item the pattern Some(Ok(event)) does not match.
Events == {"Esc", "Other", "Unmatched"}

\* The ingestion loop after a line that is not a decoded GGA sentence: the
\* `if let` / `_ => {}` fall through to the next iteration.
AfterIgnoredPanics == "panicked"
AfterIgnored == "next_line"

VARIABLES
    now,        \* the monotonic clock (tokio::time::Instant::now)
    timeout,    \* args.timeout, fixed when the store is constructed
    nmea,       \* the NmeaStatus behind the RwLock: slot -> [inner, updated_at]
    writer,     \* the ingestion task holds the write guard
    reader,     \* the render loop holds the read guard
    src,        \* the line source: "open", "eof" (end of source reported once),
                \* "eof_polled" (next_line called again after that) or "err"
    nread,      \* lines delivered so far
    ipc,        \* ingestion task: "next_line", "write_wait", "update", "unlock", "panicked"
    cur,        \* the line next_line() last yielded ("" before the first)
    ui,         \* index into GgaFields of the update call in progress
    uhalf,      \* 0 before self.inner is assigned, 1 before self.updated_at is
    mpc,        \* main: "select", "select_tick", "read_wait", "draw", "restore", "done", "panicked"
    ri,         \* index into DrawOrder of the next slot to render
    tickReady,  \* interval.tick() is ready
    ev,         \* the item the event stream has ready ("none" when not ready)
    obs,        \* the slot read of the render_statistics call in progress:
                \* what it saw, when, and what it showed (NoObs between frames)
    calls,      \* history: per slot, the completed update calls: how many (n), the
                \* last one's argument and time (value, at), the one before's
                \* argument (before), and whether the slot held a present value
                \* that had gone stale when the last call was made (wasStale)
    ignored     \* history: lines dropped without touching the store

vars == <<now, timeout, nmea, writer, reader, src, nread, ipc, cur, ui, uhalf,
          mpc, ri, tickReady, ev, obs, calls, ignored>>

ingestVars == <<src, nread, ipc, cur, ui, uhalf, calls, ignored>>
renderVars == <<mpc, ri, tickReady, ev, obs>>

\* The history of a slot no update call has completed on.
NoCall == [n |-> 0, value |-> None, at |-> 0, before |-> None, wasStale |-> FALSE]

NoObs == [field |-> "none", inner |-> None, updated_at |-> 0, at |-> 0,
          last |-> NoCall, result |-> None, text |-> ""]

\* main: the store is built at start-up, the task spawned, run() entered.
\* interval()'s first tick completes immediately.
Init ==
    /\ now = 0
    /\ timeout = Timeout
    /\ nmea = NmeaStatus_new(0)
    /\ writer = FALSE
    /\ reader = FALSE
    /\ src = "open"
    /\ nread = 0
    /\ ipc = "next_line"
    /\ cur = ""
    /\ ui = 1
    /\ uhalf = 0
    /\ mpc = "select"
    /\ ri = 1
    /\ tickReady = TRUE
    /\ ev = "none"
    /\ obs = NoObs
    /\ calls = [f \in Fields |-> NoCall]
    /\ ignored = 0

\* The process lives until main returns or main panics; the runtime and the
\* spawned task go with it.
ProcessAlive == mpc \notin {"done", "panicked"}

\* ----------------------------------------------------------- environment
\* The clock advances.
Tick ==
    /\ ProcessAlive
    /\ now < MaxTime
    /\ now' = now + 1
    /\ UNCHANGED <<timeout, nmea, writer, reader, ingestVars, renderVars>>

\* The 60 Hz interval becomes ready.
TimerFire ==
    /\ ProcessAlive
    /\ ~tickReady
    /\ tickReady' = TRUE
    /\ UNCHANGED <<now, timeout, nmea, writer, reader, ingestVars, mpc, ri, ev, obs>>

\* The terminal's event stream gets an item ready.
EventArrives ==
    /\ ProcessAlive
    /\ ev = "none"
    /\ \E e \in Events : ev' = e
    /\ UNCHANGED <<now, timeout, nmea, writer, reader, ingestVars, mpc, ri, tickReady, obs>>

\* -------------------------------------------------------- ingestion task
\* next_line() yields Some(line): decode it; a GGA sentence asks for the
\* write lock, anything else is dropped and the loop goes round.
NextLineSome ==
    /\ ProcessAlive
    /\ ipc = "next_line"
    /\ src = "open"
    /\ nread < MaxLines
    /\ \E line \in Lines :
         LET p == parse_str(line) IN
         /\ nread' = nread + 1
         /\ cur' = line
         /\ IF IsGga(p)
              THEN /\ ui' = 1
                   /\ uhalf' = 0
                   /\ ignored' = ignored
                   /\ IF CanWrite(reader, writer)
                        THEN writer' = TRUE /\ ipc' = "update"
                        ELSE writer' = writer /\ ipc' = "write_wait"
              ELSE /\ ipc' = AfterIgnored
                   /\ ignored' = ignored + 1
                   /\ UNCHANGED <<ui, uhalf, writer>>
    /\ UNCHANGED <<now, timeout, nmea, reader, src, calls, renderVars>>

\* next_line() yields None (end of source): nothing to do, the loop goes
\* round and calls next_line() again, which yields None again.
NextLineNone ==
    /\ ProcessAlive
    /\ ipc = "next_line"
    /\ src \in {"open", "eof", "eof_polled"}
    /\ src' = IF src = "open" THEN "eof" ELSE "eof_polled"
    /\ UNCHANGED <<now, timeout, nmea, writer, reader, nread, ipc, cur, ui, uhalf,
                   calls, ignored, renderVars>>

\* next_line() yields Err: unwrap() panics inside the spawned task. The
\* JoinHandle was dropped, so the panic ends the task and nothing else.
NextLineErr ==
    /\ ProcessAlive
    /\ ipc = "next_line"
    /\ src = "open"
    /\ src' = "err"
    /\ ipc' = "panicked"
    /\ UNCHANGED <<now, timeout, nmea, writer, reader, nread, cur, ui, uhalf,
                   calls, ignored, renderVars>>

\* nmea.write().await completes: the waiting task was handed the write
\* access and resumes.
WriteAcquire ==
    /\ ProcessAlive
    /\ ipc = "write_wait"
    /\ writer
    /\ ipc' = "update"
    /\ UNCHANGED <<now, timeout, nmea, writer, reader, src, nread, cur, ui, uhalf,
                   calls, ignored, renderVars>>

\* update(): self.inner = next.into()
UpdateInner ==
    /\ ProcessAlive
    /\ ipc = "update"
    /\ uhalf = 0
    /\ LET f == GgaFields[ui]
           next == GgaValue(parse_str(cur), f)
       IN nmea' = [nmea EXCEPT ![f] = StatusValue_update_inner(@, next)]
    /\ uhalf' = 1
    /\ UNCHANGED <<now, timeout, writer, reader, src, nread, ipc, cur, ui,
                   calls, ignored, renderVars>>

\* update(): self.updated_at = Instant::now(); then the next update call,
\* or the end of the arm.
UpdateStamp ==
    /\ ProcessAlive
    /\ ipc = "update"
    /\ uhalf = 1
    /\ LET f == GgaFields[ui]
           next == GgaValue(parse_str(cur), f)
       IN /\ nmea' = [nmea EXCEPT ![f] = StatusValue_update_stamp(@, now)]
          /\ calls' = [calls EXCEPT ![f] =
                         [n |-> @.n + 1, value |-> next, at |-> now,
                          before |-> @.value,
                          wasStale |-> IsSome(@.value) /\ now >= @.at + timeout]]
    /\ uhalf' = 0
    /\ IF ui < Len(GgaFields)
         THEN ui' = ui + 1 /\ ipc' = ipc
         ELSE ui' = 1 /\ ipc' = "unlock"
    /\ UNCHANGED <<now, timeout, writer, reader, src, nread, cur, ignored, renderVars>>

\* The write guard is dropped at the end of the GGA arm.
WriteRelease ==
    /\ ProcessAlive
    /\ ipc = "unlock"
    /\ writer' = FALSE
    /\ reader' = (reader \/ GrantOnRelease(mpc = "read_wait"))
    /\ ipc' = "next_line"
    /\ UNCHANGED <<now, timeout, nmea, src, nread, cur, ui, uhalf,
                   calls, ignored, renderVars>>

\* ------------------------------------------------------------ render loop
\* select! takes the tick branch: ask for the read lock.
SelectTick ==
    /\ mpc \in {"select", "select_tick"}
    /\ tickReady
    /\ tickReady' = FALSE
    /\ ri' = 1
    /\ IF CanRead(writer)
         THEN reader' = TRUE /\ mpc' = "draw"
         ELSE reader' = reader /\ mpc' = "read_wait"
    /\ UNCHANGED <<now, timeout, nmea, writer, ingestVars, ev, obs>>

\* select! takes the event branch: Esc ends the loop, any other event keeps
\* it going; an item the pattern does not match disables the branch, and
\* this select! then waits for the tick alone.
SelectEvent ==
    /\ mpc = "select"
    /\ ev # "none"
    /\ ev' = "none"
    /\ mpc' = IF ev = "Unmatched" THEN "select_tick"
              ELSE IF IsQuit(ev) THEN "restore"
              ELSE "select"
    /\ UNCHANGED <<now, timeout, nmea, writer, reader, ingestVars, ri, tickReady, obs>>

\* nmea.read().await completes: the waiting loop was handed the read access
\* and resumes.
ReadAcquire ==
    /\ mpc = "read_wait"
    /\ reader
    /\ mpc' = "draw"
    /\ UNCHANGED <<now, timeout, nmea, writer, reader, ingestVars, ri, tickReady, ev, obs>>

\* draw(): one render_statistics call: clone the slot, convert it to Text.
DrawField ==
    /\ mpc = "draw"
    /\ ri <= Len(DrawOrder)
    /\ LET f == DrawOrder[ri]
           sv == nmea[f]
       IN obs' = [field |-> f, inner |-> sv.inner, updated_at |-> sv.updated_at,
                  at |-> now, last |-> calls[f],
                  result |-> StatusValue_get(sv, now, timeout),
                  text |-> Text_from(sv, now, timeout)]
    /\ ri' = ri + 1
    /\ UNCHANGED <<now, timeout, nmea, writer, reader, ingestVars, mpc, tickReady, ev>>

\* terminal.draw returns Ok: the read guard is dropped, the branch yields true.
DrawDone ==
    /\ mpc = "draw"
    /\ ri > Len(DrawOrder)
    /\ reader' = FALSE
    /\ writer' = (writer \/ GrantOnRelease(ipc = "write_wait"))
    /\ mpc' = "select"
    /\ ri' = 1
    /\ obs' = NoObs
    /\ UNCHANGED <<now, timeout, nmea, ingestVars, tickReady, ev>>

\* terminal.draw returns Err: expect() panics in main, and the process ends.
DrawFail ==
    /\ mpc = "draw"
    /\ ri > Len(DrawOrder)
    /\ reader' = FALSE
    /\ writer' = (writer \/ GrantOnRelease(ipc = "write_wait"))
    /\ mpc' = "panicked"
    /\ ri' = 1
    /\ obs' = NoObs
    /\ UNCHANGED <<now, timeout, nmea, ingestVars, tickReady, ev>>

\* run() returned Ok(()): ratatui::restore(), result.expect(..), main returns.
Restore ==
    /\ mpc = "restore"
    /\ mpc' = "done"
    /\ UNCHANGED <<now, timeout, nmea, writer, reader, ingestVars, ri, tickReady, ev, obs>>

Next ==
    \/ Tick
    \/ TimerFire
    \/ EventArrives
    \/ NextLineSome
    \/ NextLineNone
    \/ NextLineErr
    \/ WriteAcquire
    \/ UpdateInner
    \/ UpdateStamp
    \/ WriteRelease
    \/ SelectTick
    \/ SelectEvent
    \/ ReadAcquire
    \/ DrawField
    \/ DrawDone
    \/ DrawFail
    \/ Restore

Spec == Init /\ [][Next]_vars

\* The steps of the tasks, the lock, the interval and the event stream. No
\* guard but Tick's own reads the clock, which only feeds the timestamps, so
\* which of these steps can follow which does not depend on it.
NextControl ==
    \/ TimerFire
    \/ EventArrives
    \/ NextLineSome
    \/ NextLineNone
    \/ NextLineErr
    \/ WriteAcquire
    \/ UpdateInner
    \/ UpdateStamp
    \/ WriteRelease
    \/ SelectTick
    \/ SelectEvent
    \/ ReadAcquire
    \/ DrawField
    \/ DrawDone
    \/ DrawFail
    \/ Restore

\* Scheduling, with the clock held still. The runtime runs every task that
\* can run, so each step of the ingestion task and of the render loop that
\* stays possible is taken; the interval fires; select! polls its ready
\* branches in random order, so a branch that is ready again and again is
\* taken in the end. Lines and terminal events arrive or not as the
\* environment pleases.
FairSpec ==
    /\ Init
    /\ [][NextControl]_vars
    /\ WF_vars(TimerFire)
    /\ WF_vars(WriteAcquire)
    /\ WF_vars(UpdateInner)
    /\ WF_vars(UpdateStamp)
    /\ WF_vars(WriteRelease)
    /\ WF_vars(ReadAcquire)
    /\ WF_vars(DrawField)
    /\ WF_vars(DrawDone \/ DrawFail)
    /\ WF_vars(Restore)
    /\ SF_vars(SelectTick)
    /\ SF_vars(SelectEvent)

TypeOK ==
    /\ now \in 0..MaxTime
    /\ timeout = Timeout
    /\ writer \in BOOLEAN /\ reader \in BOOLEAN
    /\ src \in {"open", "eof", "eof_polled", "err"}
    /\ ipc \in {"next_line", "write_wait", "update", "unlock", "panicked"}
    /\ mpc \in {"select", "select_tick", "read_wait", "draw", "restore", "done", "panicked"}
    /\ ui \in 1..Len(GgaFields) /\ uhalf \in {0, 1}
    /\ ri \in 1..(Len(DrawOrder) + 1)
    /\ ~(reader /\ writer)

\* ------------------------------------------------------------ properties
\* The render loop's two states.
Running == mpc \in {"select", "select_tick", "read_wait", "draw"}
Terminated == mpc \in {"restore", "done"}

\* A render_statistics call has read a slot in the frame being drawn.
HasRead == obs.field # "none"

\* The update call on slot f has assigned inner and not yet updated_at.
MidUpdate(f) == ipc = "update" /\ uhalf = 1 /\ GgaFields[ui] = f

\* C1: Staleness monotonicity. A read of a slot whose last completed update
\* wrote a present value v at time T returns Some(v) at every read time in
\* [T, T + timeout) and None at every read time >= T + timeout.
StalenessMonotonicity ==
    (HasRead /\ obs.last.n > 0 /\ IsSome(obs.last.value)) =>
        /\ obs.result = IF obs.at < obs.last.at + timeout
                          THEN obs.last.value ELSE None
        /\ obs.text = IF obs.at < obs.last.at + timeout
                        THEN Unwrap(obs.last.value) ELSE "value"

\* C1 witness: a present value read exactly one timeout after its write
\* is shown as absent.
StaleReadWitness ==
    /\ HasRead
    /\ obs.field = "lat"
    /\ obs.last.n > 0
    /\ IsSome(obs.last.value)
    /\ obs.at = obs.last.at + timeout
    /\ obs.result = None

\* C2: No torn reads. The (inner, updated_at) pair a render reads from a slot
\* is the pair of the slot's last completed update call, or the construction
\* pair when no update call has completed on it.
NoTornReads ==
    HasRead =>
        IF obs.last.n = 0
          THEN obs.inner = None /\ obs.updated_at = 0
          ELSE obs.inner = obs.last.value /\ obs.updated_at = obs.last.at

\* C2 witness: a render reads a slot written earlier while the ingestion
\* task, holding a new GGA sentence, waits for the write lock.
ConcurrentReadWitness ==
    /\ HasRead
    /\ obs.last.n >= 1
    /\ obs.last.at > 0
    /\ ipc = "write_wait"
    /\ parse_str(cur).latitude # nmea["lat"].inner

\* No update call has started on any slot.
FreshStore == ~writer /\ \A f \in Fields : calls[f].n = 0

\* C3: Never-written default. On the store as constructed, before any update,
\* every one of the seven slots reads absent at every read time, and every
\* read a render performs shows the placeholder.
NeverWrittenDefault ==
    FreshStore =>
        /\ \A f \in Fields : \A t \in 0..MaxTime :
              StatusValue_get(nmea[f], t, timeout) = None
        /\ HasRead => (obs.result = None /\ obs.text = "value")

\* C3 witness: a frame has read all seven slots of the fresh store, the last
\* of them after time zero.
FreshStoreReadWitness ==
    /\ FreshStore
    /\ mpc = "draw"
    /\ ri > Len(DrawOrder)
    /\ obs.field = "fix_type"
    /\ obs.at > 0

\* C4: Update overwrite. After two update calls on a slot, the slot holds the
\* second call's value and the second call's time, and a read sees only those.
UpdateOverwrite ==
    /\ \A f \in Fields :
          (calls[f].n >= 2 /\ ~MidUpdate(f)) =>
              nmea[f] = [inner |-> calls[f].value, updated_at |-> calls[f].at]
    /\ (HasRead /\ obs.last.n >= 2) =>
          /\ obs.inner = obs.last.value
          /\ obs.updated_at = obs.last.at
          /\ obs.result = IF IsSome(obs.last.value) /\ obs.at < obs.last.at + timeout
                            THEN obs.last.value ELSE None

\* C4 witness: a render reads a slot after two update calls with different
\* values made at different times.
SecondUpdateReadWitness ==
    /\ HasRead
    /\ obs.field = "lat"
    /\ obs.last.n = 2
    /\ obs.last.before # obs.last.value
    /\ obs.last.at > 0
    /\ obs.result = obs.last.value

\* The tracked fields each sentence type carries.
SentenceCarries(kind) ==
    CASE kind = "GGA" -> {"lat", "lon", "alt", "fix_type"}
      [] kind = "RMC" -> {"lat", "lon", "sog", "cog"}
      [] OTHER -> {}

\* C5: Selective field update. A step changes a slot only while a decoded
\* sentence is being processed and only if that sentence type carries the
\* slot's field: for GGA, hdg, sog and cog keep value and updated_at.
SelectiveFieldUpdate ==
    [][\A f \in Fields :
          nmea'[f] # nmea[f] =>
              /\ ipc = "update"
              /\ parse_str(cur).ok
              /\ f \in SentenceCarries(parse_str(cur).kind)]_vars

\* C5 witness: a GGA sentence has been written after time zero and hdg, sog
\* and cog are as constructed.
GgaWrittenWitness ==
    /\ ipc = "unlock"
    /\ calls["lat"].at > 0
    /\ calls["fix_type"].n = 1
    /\ \A f \in {"hdg", "sog", "cog"} : nmea[f] = StatusValue_default(0)

\* A line is dropped: its decode fails, or it decodes to a sentence type
\* other than GGA.
Dropped(line) == ~parse_str(line).ok \/ parse_str(line).kind # "GGA"

\* C6: Malformed-input robustness. The step that reads a dropped line changes
\* no slot and leaves the ingestion task at next_line, the source and the
\* lock as they were; the task stops only on an I/O error of the source.
MalformedInputRobustness ==
    [][/\ (nread' = nread + 1 /\ Dropped(cur')) =>
              /\ nmea' = nmea
              /\ calls' = calls
              /\ ipc' = "next_line"
              /\ src' = src
              /\ writer' = writer
       /\ (ipc # "panicked" /\ ipc' = "panicked") => src' = "err"]_vars

\* C6 witness: a GGA sentence read after a dropped line has been written.
WrittenAfterDroppedWitness ==
    /\ ignored >= 1
    /\ ipc = "unlock"
    /\ ~Dropped(cur)
    /\ calls["lat"].n = 1
    /\ nmea["lat"].inner = parse_str(cur).latitude

\* C7: Render loop state machine. The loop starts Running; it becomes
\* Terminated only by taking the Esc event in select!; a tick or any other
\* event leaves it Running, the one other way out being the panic of a
\* failed draw, which ends the process; once Terminated it stays Terminated,
\* takes no read lock and reads no slot.
RenderLoopStateMachine ==
    /\ Running
    /\ [][/\ (Running /\ Terminated') =>
                (mpc = "select" /\ ev = "Esc" /\ ev' = "none")
          /\ (mpc = "select" /\ ev \in {"Other", "Unmatched"} /\ ev' = "none") =>
                Running'
          /\ (tickReady /\ ~tickReady') => Running'
          /\ (Running /\ ~Running' /\ ~Terminated') =>
                (mpc = "draw" /\ ri > Len(DrawOrder) /\ mpc' = "panicked")
          /\ Terminated =>
                (Terminated' /\ ~reader /\ ~reader' /\ obs' = obs /\ ri' = ri)]_vars

\* C7 witness: main has returned after Esc, with a tick still ready.
TerminatedWitness == mpc = "done" /\ tickReady /\ ev = "none"

\* C8: Quit beats a pending tick. When the tick and the Esc event are both
\* ready as select! polls, the loop's next step is to Terminated.
QuitBeatsPendingTick ==
    [][(mpc = "select" /\ tickReady /\ ev = "Esc" /\ mpc' # mpc) =>
          mpc' = "restore"]_vars

\* The GGA arm has made its four update calls for the line in cur, none of
\* which carried an altitude.
WroteGgaWithoutAltitude ==
    /\ ipc = "unlock"
    /\ IsGga(parse_str(cur))
    /\ ~IsSome(parse_str(cur).altitude)

\* C9 as stated: while a GGA sentence without altitude is processed, after
\* an earlier sentence set the altitude, the alt slot keeps its value and
\* updated_at.
AbsentFieldLeavesSlotAlone ==
    [][(/\ ipc = "update"
        /\ ~IsSome(parse_str(cur).altitude)
        /\ calls["alt"].n >= 1
        /\ IsSome(calls["alt"].value)) =>
          nmea'["alt"] = nmea["alt"]]_vars

\* C9 amended: a GGA sentence without altitude overwrites the alt slot with
\* absent and stamps it with the time of that update call, between the
\* sentence's lat and fix_type calls; lat and lon hold the sentence's values;
\* hdg, sog and cog are as constructed.
AbsentFieldWrittenAsAbsent ==
    WroteGgaWithoutAltitude =>
        /\ nmea["alt"].inner = None
        /\ nmea["alt"].updated_at = calls["alt"].at
        /\ calls["lat"].at <= nmea["alt"].updated_at
        /\ nmea["alt"].updated_at <= calls["fix_type"].at
        /\ nmea["lat"].inner = parse_str(cur).latitude
        /\ nmea["lon"].inner = parse_str(cur).longitude
        /\ \A f \in {"hdg", "sog", "cog"} : nmea[f] = StatusValue_default(0)

\* C9 witness: a GGA sentence without altitude has been written, after
\* time zero, over an altitude an earlier sentence had set.
AltitudeOverwrittenWitness ==
    /\ WroteGgaWithoutAltitude
    /\ IsSome(calls["alt"].before)
    /\ calls["alt"].n = 2
    /\ calls["alt"].at > 0

\* C10: A line-source I/O error is fatal. Once next_line has failed, the
\* render loop starts no further frame.
IoErrorStopsRendering ==
    [][src = "err" => ~(mpc # "draw" /\ mpc' = "draw")]_vars

\* C11: Staleness is recoverable. A slot whose present value had gone stale
\* reads present again at every read made after a fresh update with a value
\* and within the timeout of that update.
StalenessRecoverable ==
    (/\ HasRead
     /\ obs.last.wasStale
     /\ IsSome(obs.last.value)
     /\ obs.at < obs.last.at + timeout) =>
        /\ obs.result = obs.last.value
        /\ obs.text = Unwrap(obs.last.value)

\* C11 witness: a render shows the value of an update made on a stale slot.
RecoveredReadWitness ==
    /\ HasRead
    /\ obs.field = "lat"
    /\ obs.last.wasStale
    /\ obs.result = obs.last.value
    /\ IsSome(obs.result)

\* C12: Explicit absence is a fresh write. After an update call with None the
\* slot holds None and the time of that call, and it reads absent at every
\* read time until the next update call, as a never-written slot does.
ExplicitAbsenceIsFreshWrite ==
    /\ \A f \in Fields :
          (calls[f].n >= 1 /\ calls[f].value = None /\ ~MidUpdate(f)) =>
              /\ nmea[f] = [inner |-> None, updated_at |-> calls[f].at]
              /\ \A t \in 0..MaxTime :
                    StatusValue_get(nmea[f], t, timeout)
                        = StatusValue_get(StatusValue_default(0), t, timeout)
    /\ (HasRead /\ obs.last.n >= 1 /\ obs.last.value = None) =>
          /\ obs.updated_at = obs.last.at
          /\ obs.result = None
          /\ obs.text = "value"

\* C12 witness: a render reads the alt slot after a sentence without
\* altitude overwrote, after time zero, an altitude that was present.
AbsentWriteReadWitness ==
    /\ HasRead
    /\ obs.field = "alt"
    /\ obs.last.n = 2
    /\ obs.last.value = None
    /\ IsSome(obs.last.before)
    /\ obs.last.at > 0
    /\ obs.updated_at = obs.last.at

\* An instant of the clock, as opposed to a distinguished "never".
IsInstant(t) == t \in 0..MaxTime

\* No update call has assigned anything to slot f.
NeverWritten(f) == calls[f].n = 0 /\ ~MidUpdate(f)

\* A step never moves a slot's updated_at backwards.
StampMonotone ==
    [][\A f \in Fields : nmea'[f].updated_at >= nmea[f].updated_at]_vars

\* C13 as stated: updated_at never decreases, and before the first write it
\* holds a distinguished "never" value, not an instant.
LastWrittenNeverBeforeFirstWrite ==
    /\ StampMonotone
    /\ [](\A f \in Fields : NeverWritten(f) => ~IsInstant(nmea[f].updated_at))

\* C13 amended: updated_at never decreases, and before the first write it
\* holds the instant at which the store was constructed, with an absent value.
LastWrittenMonotoneFromConstruction ==
    /\ StampMonotone
    /\ [](\A f \in Fields : NeverWritten(f) => nmea[f] = StatusValue_default(0))

\* C13 witness: a slot written twice, the second time after time zero,
\* beside a slot never written.
StampAdvancedWitness ==
    /\ calls["lat"].n = 2
    /\ nmea["lat"].updated_at > 0
    /\ NeverWritten("hdg")
    /\ now > 0

\* C14: Reader/writer exclusion. The write guard and the read guard are never
\* out together, the render loop waits for read access only because of the
\* writer, and the ingestion task waits for write access only because of the
\* reader.
ReaderWriterExclusion ==
    /\ ~(writer /\ reader)
    /\ mpc = "draw" => reader
    /\ ipc \in {"update", "unlock"} => writer
    /\ mpc = "read_wait" => (writer \/ reader)
    /\ ipc = "write_wait" => (reader \/ writer)

\* C14 witness: the ingestion task holds the write guard in the middle of an
\* update while the render loop waits for read access.
WriterExcludesReaderWitness ==
    /\ writer
    /\ ipc = "update"
    /\ uhalf = 1
    /\ mpc = "read_wait"

\* C15 as stated: each write access spans exactly one update call.
OneUpdatePerWriteAccess == (writer /\ ipc = "update") => ui = 1

\* C15 amended: one write access spans the four update calls of a GGA
\* sentence, so whenever the render loop holds read access the lat, lon, alt
\* and fix_type slots have had the same number of update calls and none is
\* in the middle of one: a frame never shows part of a sentence.
SentenceUpdateIsAtomic ==
    reader =>
        /\ \A i \in 1..Len(GgaFields) :
              /\ calls[GgaFields[i]].n = calls[GgaFields[1]].n
              /\ ~MidUpdate(GgaFields[i])
        /\ HasRead => obs.last = calls[obs.field]

\* C15 witness: a frame reads the last GGA slot of a written sentence while
\* the next sentence waits for the write lock.
WholeSentenceReadWitness ==
    /\ reader
    /\ HasRead
    /\ obs.field = "fix_type"
    /\ obs.last.n = 1
    /\ ipc = "write_wait"

\* The line source has reported end of source.
AtEof == src \in {"eof", "eof_polled"}

\* C16: Convergence after source end. Once end of source is reported no slot
\* is written again and the ingestion task never holds or awaits the lock, so
\* a render loop found waiting has already been handed the read access; every
\* slot a render reads at least one timeout after the slot's last update
\* shows absent.
ConvergenceAfterSourceEnd ==
    /\ [][AtEof => (nmea' = nmea /\ calls' = calls /\ AtEof')]_vars
    /\ [](AtEof => (/\ ~writer
                    /\ ipc = "next_line"
                    /\ mpc = "read_wait" => reader))
    /\ []((AtEof /\ HasRead /\ obs.at >= obs.last.at + timeout) =>
              (obs.result = None /\ obs.text = "value"))

\* C16 witness: after end of source a render shows as absent a slot that
\* holds a value written at least one timeout earlier.
StaleAfterEofWitness ==
    /\ AtEof
    /\ HasRead
    /\ obs.field = "fix_type"
    /\ IsSome(obs.inner)
    /\ obs.at >= obs.last.at + timeout
    /\ obs.text = "value"

\* C17: Ingestion terminates at source end. After next_line has reported end
\* of source the task does not call it again.
IngestionStopsAtSourceEnd == src # "eof_polled"

\* C20: hdg, sog and cog are never written. They stay as constructed, no
\* update call is made on them, every read of them shows absent, and only
\* lat, lon, alt and fix_type ever hold a present value.
KinematicFieldsNeverWritten ==
    /\ \A f \in {"hdg", "sog", "cog"} :
          /\ nmea[f] = NmeaStatus_new(0)[f]
          /\ calls[f].n = 0
    /\ \A f \in Fields :
          IsSome(nmea[f].inner) => f \in {"lat", "lon", "alt", "fix_type"}
    /\ (HasRead /\ obs.field \in {"hdg", "sog", "cog"}) =>
          (obs.result = None /\ obs.text = "value")

\* C20 witness: after a GGA sentence was written past time zero, a render
\* reads cog and shows it absent.
CogStillAbsentWitness ==
    /\ HasRead
    /\ obs.field = "cog"
    /\ obs.text = "value"
    /\ calls["fix_type"].n >= 1
    /\ calls["fix_type"].at > 0

\* C18: Quit is eventually honoured. Under FairSpec, once the Esc event is
\* ready the render loop reaches Terminated, whatever ticks are ready and
\* whatever the ingestion task does with the lock; the one other end is the
\* panic of a failed draw, which ends the process.
QuitEventuallyHonoured ==
    (ev = "Esc") ~> (Terminated \/ mpc = "panicked")

\* C18 witness: the loop has taken Esc with a tick ready and the ingestion
\* task holding the write guard.
QuitTakenWitness ==
    /\ mpc = "restore"
    /\ tickReady
    /\ writer
    /\ ipc = "update"

\* The GGA arm holds a decoded sentence it has not finished writing.
SentencePending == ipc \in {"write_wait", "update"}

\* C19: The writer is not starved, nor the reader. Under FairSpec, while the
\* process lives, a decoded GGA sentence is written in full, and a render
\* loop waiting for read access gets it and renders all seven slots.
NoStarvation ==
    /\ SentencePending ~> (ipc = "unlock" \/ ~ProcessAlive)
    /\ (mpc = "read_wait") ~> (mpc = "draw" /\ ri > Len(DrawOrder))

\* C19 witness: the render loop released the lock with the ingestion task
\* waiting, which now has the write access, and the next tick is ready.
WriterServedWitness ==
    /\ ipc = "write_wait"
    /\ writer
    /\ mpc = "select"
    /\ tickReady
====
